---------------------------- MODULE Spec2Model ----------------------------
(***************************************************************************)
(* FEN parsing pipeline of nogi (src/src/fen_parser.rs) and the older      *)
(* decoder kept in src/src/game.rs.                                        *)
(*                                                                         *)
(* A string is a sequence of one-character strings.  Every decoder is a    *)
(* pure function; it is modelled as an operator that returns an outcome:   *)
(*   Ok(v)   the Rust value Ok(v)                                          *)
(*   Err(e)  the Rust value Err(ErrorWrapper::e)                           *)
(*   Panic   the thread panicked (slice or array index out of range)       *)
(* The state machine calls one decoder on one input drawn from a bounded   *)
(* set, records the outcome, and returns to the idle state.                *)
(***************************************************************************)
EXTENDS Integers, Sequences, FiniteSets, TLC

VARIABLES call, arg, out, writes

vars == <<call, arg, out, writes>>

---------------------------------------------------------------------------
(* Bounds of the input sets *)

MaxFenLen == 7
MaxPlacementLen == 3
MaxSlashes == 8
MaxCastlingLen == 4
MaxEnPassantLen == 2
MaxMovesLen == 3

(* [[Piece::Empty; 8]; 8] *)
BoardSize == 8

---------------------------------------------------------------------------
(* Outcomes and Rust values *)

Ok(v) == [tag |-> "Ok", val |-> v]
Err(e) == [tag |-> "Err", val |-> e]
Panic == [tag |-> "Panic", val |-> "index out of range"]

IsOk(r) == r.tag = "Ok"
IsErr(r, e) == r.tag = "Err" /\ r.val = e

NoneOpt == <<>>
Some(x) == <<x>>

Empty == <<"Empty">>
Piece(kind, color) == <<kind, color>>

EmptyBoard == [f \in 0..(BoardSize - 1) |-> [r \in 0..(BoardSize - 1) |-> Empty]]

---------------------------------------------------------------------------
(* char helpers of the standard library, on ASCII *)

LowerChars == <<"a","b","c","d","e","f","g","h","i","j","k","l","m",
                "n","o","p","q","r","s","t","u","v","w","x","y","z">>
UpperChars == <<"A","B","C","D","E","F","G","H","I","J","K","L","M",
                "N","O","P","Q","R","S","T","U","V","W","X","Y","Z">>
DigitChars == <<"0","1","2","3","4","5","6","7","8","9">>

IndexIn(seq, c) == CHOOSE i \in 1..Len(seq) : seq[i] = c
Occurs(seq, c) == \E i \in 1..Len(seq) : seq[i] = c

is_uppercase(c) == Occurs(UpperChars, c)
is_lowercase(c) == Occurs(LowerChars, c)
to_ascii_lowercase(c) ==
    IF Occurs(UpperChars, c) THEN LowerChars[IndexIn(UpperChars, c)] ELSE c

(* char::to_digit(10): Some(d) for '0'..'9', None otherwise *)
to_digit(c) ==
    IF Occurs(DigitChars, c) THEN Some(IndexIn(DigitChars, c) - 1) ELSE NoneOpt

(* str::split(" "): the empty string gives one empty token *)
RECURSIVE SplitFrom(_, _, _, _)
SplitFrom(s, sep, i, cur) ==
    IF i > Len(s) THEN <<cur>>
    ELSE IF s[i] = sep THEN <<cur>> \o SplitFrom(s, sep, i + 1, <<>>)
    ELSE SplitFrom(s, sep, i + 1, Append(cur, s[i]))

str_split(s, sep) == SplitFrom(s, sep, 1, <<>>)

---------------------------------------------------------------------------
(* fen_parser.rs *)

(* Mutant: the colour is taken from the wrong letter case *)
fen_piece_to_piece_case_swapped(fen_piece) ==
    LET color == IF is_lowercase(fen_piece) THEN "White" ELSE "Black"
        lc == to_ascii_lowercase(fen_piece)
    IN  IF lc = "p" THEN Ok(Piece("Pawn", color))
        ELSE IF lc = "n" THEN Ok(Piece("Knight", color))
        ELSE IF lc = "b" THEN Ok(Piece("Bishop", color))
        ELSE IF lc = "r" THEN Ok(Piece("Rook", color))
        ELSE IF lc = "q" THEN Ok(Piece("Queen", color))
        ELSE IF lc = "k" THEN Ok(Piece("King", color))
        ELSE Err("InvalidFen")

fen_piece_to_piece(fen_piece) ==
    LET color == IF is_uppercase(fen_piece) THEN "White" ELSE "Black"
        lc == to_ascii_lowercase(fen_piece)
    IN  IF lc \in {"1","2","3","4","5","6","7","8"} THEN Ok(Empty)
        ELSE IF lc = "p" THEN Ok(Piece("Pawn", color))
        ELSE IF lc = "n" THEN Ok(Piece("Knight", color))
        ELSE IF lc = "b" THEN Ok(Piece("Bishop", color))
        ELSE IF lc = "r" THEN Ok(Piece("Rook", color))
        ELSE IF lc = "q" THEN Ok(Piece("Queen", color))
        ELSE IF lc = "k" THEN Ok(Piece("King", color))
        ELSE Err("InvalidFen")

(* Mutant: the last six tokens are taken instead of the first six *)
parse_fen_last_six(fen) ==
    LET tokens == str_split(fen, " ")
    IN  IF Len(tokens) < 6 THEN Panic
        ELSE Ok(SubSeq(tokens, Len(tokens) - 5, Len(tokens)))

(* The slice index [0..6] panics when the vector holds fewer than six      *)
(* tokens; a slice of six always matches the pattern, so the else branch   *)
(* of the let-else is only reached for a slice of another length.          *)
parse_fen(fen) ==
    LET tokens == str_split(fen, " ")
    IN  IF Len(tokens) < 6 THEN Panic
        ELSE LET slice == SubSeq(tokens, 1, 6)
             IN  IF Len(slice) = 6 THEN Ok(slice) ELSE Err("InvalidFen")

(* The loop of parse_piece_placement from character i on.  log is the list *)
(* of the cells board[file][rank] = piece was executed for, the one that   *)
(* panicked included.                                                      *)
RECURSIVE PlacementLoop(_, _, _, _, _, _)
PlacementLoop(s, i, file, rank, board, log) ==
    IF i > Len(s) THEN [res |-> Ok(board), log |-> log]
    ELSE LET piece == s[i]
         IN  IF piece = "/"
             THEN PlacementLoop(s, i + 1, file + 1, 0, board, log)
             ELSE IF to_digit(piece) # NoneOpt
             THEN PlacementLoop(s, i + 1, file, rank + to_digit(piece)[1], board, log)
             ELSE LET p == fen_piece_to_piece(piece)
                  IN  IF ~IsOk(p) THEN [res |-> p, log |-> log]
                      ELSE IF file >= BoardSize \/ rank >= BoardSize
                      THEN [res |-> Panic, log |-> Append(log, <<file, rank>>)]
                      ELSE PlacementLoop(s, i + 1, file, rank + 1,
                                         [board EXCEPT ![file][rank] = p.val],
                                         Append(log, <<file, rank>>))

placement_run(piece_placement) ==
    PlacementLoop(piece_placement, 1, 0, 0, EmptyBoard, <<>>)

parse_piece_placement(piece_placement) == placement_run(piece_placement).res

parse_active_color(active_color) ==
    IF active_color = <<"w">> THEN Ok("White")
    ELSE IF active_color = <<"b">> THEN Ok("Black")
    ELSE Err("InvalidFen")

(* Mutant: a side that has Both keeps it *)
merge_castling_keeps_both(target, castling) ==
    IF target = "Both" \/ (target = "KingSide" /\ castling = "QueenSide")
    THEN "Both" ELSE castling

(* the match on (existing right, new right) that updates target_castling *)
merge_castling(target, castling) ==
    IF target = "KingSide" /\ castling = "QueenSide" THEN "Both" ELSE castling

RECURSIVE CastlingLoop(_, _, _, _)
CastlingLoop(s, i, white_castling, black_castling) ==
    IF i > Len(s) THEN Ok(<<white_castling, black_castling>>)
    ELSE LET char == s[i]
             lc == to_ascii_lowercase(char)
         IN  IF char = "-" THEN Ok(<<white_castling, black_castling>>)
             ELSE IF lc \notin {"k", "q"} THEN Err("InvalidFen")
             ELSE LET castling == IF lc = "k" THEN "KingSide" ELSE "QueenSide"
                  IN  IF is_lowercase(char)
                      THEN CastlingLoop(s, i + 1, white_castling,
                                        merge_castling(black_castling, castling))
                      ELSE CastlingLoop(s, i + 1,
                                        merge_castling(white_castling, castling),
                                        black_castling)

parse_castling_rights(castling) == CastlingLoop(castling, 1, "None", "None")

(* game::convert_chess_coordinates is imported by fen_parser.rs; its body   *)
(* is not part of the sources at hand and follows its written contract:    *)
(* the first character is one of 'a'..'h' (0..7), the second a decimal     *)
(* digit d with 8 - d in [0, 8); the input holds at least two characters.  *)
FileChars == <<"a","b","c","d","e","f","g","h">>

convert_chess_coordinates(square) ==
    IF ~Occurs(FileChars, square[1]) THEN Err("InvalidCoordinates")
    ELSE LET d == to_digit(square[2])
         IN  IF d = NoneOpt THEN Err("InvalidCoordinates")
             ELSE IF 8 - d[1] >= 0 /\ 8 - d[1] < 8
             THEN Ok(<<IndexIn(FileChars, square[1]) - 1, 8 - d[1]>>)
             ELSE Err("InvalidCoordinates")

(* Mutant: every token that starts with '-' means no target square *)
parse_en_passant_square_dash_prefix(en_passant) ==
    IF en_passant[1] = "-" THEN Ok(NoneOpt)
    ELSE LET r == convert_chess_coordinates(en_passant)
         IN  IF IsOk(r) THEN Ok(Some(r.val)) ELSE r

parse_en_passant_square(en_passant) ==
    IF en_passant = <<"-">> THEN Ok(NoneOpt)
    ELSE LET r == convert_chess_coordinates(en_passant)
         IN  IF IsOk(r) THEN Ok(Some(r.val)) ELSE r

(* usize values are kept as their decimal digits without leading zeros     *)
(* (<<>> is 0), so that the 64-bit range is exact.                         *)
UsizeMax == <<1,8,4,4,6,7,4,4,0,7,3,7,0,9,5,5,1,6,1,5>>

NumExceeds(n, max) ==
    \/ Len(n) > Len(max)
    \/ /\ Len(n) = Len(max)
       /\ \E i \in 1..Len(n) : n[i] > max[i] /\ \A j \in 1..(i - 1) : n[j] = max[j]

(* result.checked_mul(10) followed by checked_add(d): None on overflow *)
checked_mul_add(result, d) ==
    LET r == IF result = <<>> THEN (IF d = 0 THEN <<>> ELSE <<d>>)
             ELSE Append(result, d)
    IN  IF NumExceeds(r, UsizeMax) THEN NoneOpt ELSE Some(r)

RECURSIVE DigitsLoop(_, _, _)
DigitsLoop(digits, i, result) ==
    IF i > Len(digits) THEN Ok(result)
    ELSE LET d == to_digit(digits[i])
         IN  IF d = NoneOpt THEN Err("InvalidDigit")
             ELSE LET r == checked_mul_add(result, d[1])
                  IN  IF r = NoneOpt THEN Err("PosOverflow")
                      ELSE DigitsLoop(digits, i + 1, r[1])

(* Mutant: a leading '-' is skipped as for a signed type *)
usize_from_str_signed(src) ==
    IF src = <<>> THEN Err("Empty")
    ELSE IF Len(src) = 1 /\ src[1] \in {"+", "-"} THEN Err("InvalidDigit")
    ELSE DigitsLoop(IF src[1] \in {"+", "-"} THEN Tail(src) ELSE src, 1, <<>>)

(* str::parse::<usize>(): an empty string and a lone sign are errors, one  *)
(* leading '+' is skipped, a '-' is no digit of an unsigned type.          *)
usize_from_str(src) ==
    IF src = <<>> THEN Err("Empty")
    ELSE IF Len(src) = 1 /\ src[1] \in {"+", "-"} THEN Err("InvalidDigit")
    ELSE DigitsLoop(IF src[1] = "+" THEN Tail(src) ELSE src, 1, <<>>)

parse_moves(moves) ==
    LET r == usize_from_str(moves)
    IN  IF IsOk(r) THEN r ELSE Err("InvalidNumber")

create_from_fen(fen) ==
    LET fields == parse_fen(fen)
    IN  IF ~IsOk(fields) THEN fields ELSE
    LET color == parse_active_color(fields.val[2])
    IN  IF ~IsOk(color) THEN color ELSE
    LET board == parse_piece_placement(fields.val[1])
    IN  IF ~IsOk(board) THEN board ELSE
    LET rights == parse_castling_rights(fields.val[3])
    IN  IF ~IsOk(rights) THEN rights ELSE
    LET en_passant == parse_en_passant_square(fields.val[4])
    IN  IF ~IsOk(en_passant) THEN en_passant ELSE
    LET halfmoves == parse_moves(fields.val[5])
    IN  IF ~IsOk(halfmoves) THEN halfmoves ELSE
    LET fullmoves == parse_moves(fields.val[6])
    IN  IF ~IsOk(fullmoves) THEN fullmoves ELSE
        Ok([board |-> board.val, turn |-> color.val,
            white_castling |-> rights.val[1], black_castling |-> rights.val[2],
            en_passant |-> en_passant.val,
            halfmove |-> halfmoves.val, fullmove |-> fullmoves.val])

---------------------------------------------------------------------------
(* game.rs: the older decoder *)

game_fen_piece_to_piece(fen_piece) ==
    LET color == IF is_uppercase(fen_piece) THEN "White" ELSE "Black"
        lc == to_ascii_lowercase(fen_piece)
    IN  IF lc \in {"1","2","3","4","5","6","7","8"} THEN Empty
        ELSE IF lc = "p" THEN Piece("Pawn", color)
        ELSE IF lc = "n" THEN Piece("Knight", color)
        ELSE IF lc = "b" THEN Piece("Bishop", color)
        ELSE IF lc = "r" THEN Piece("Rook", color)
        ELSE IF lc = "q" THEN Piece("Queen", color)
        ELSE IF lc = "k" THEN Piece("King", color)
        ELSE Empty

(* set_piece(Piece::Empty, file, rank + i) for i in 0..empty_squares *)
set_empty_run(board, file, rank, empty_squares) ==
    IF empty_squares = 0 THEN board
    ELSE [board EXCEPT ![file] =
             [j \in 0..(BoardSize - 1) |->
                 IF j >= rank /\ j < rank + empty_squares THEN Empty ELSE @[j]]]

RECURSIVE GameLoop(_, _, _, _, _)
GameLoop(s, i, file, rank, board) ==
    IF i > Len(s) THEN Ok(board)
    ELSE LET piece == s[i]
             d == to_digit(piece)
         IN  IF piece = "/" THEN GameLoop(s, i + 1, file + 1, 0, board)
             ELSE IF d # NoneOpt
             THEN IF d[1] > 0 /\ (file >= BoardSize \/ rank + d[1] - 1 >= BoardSize)
                  THEN Panic
                  ELSE GameLoop(s, i + 1, file, rank + d[1],
                                set_empty_run(board, file, rank, d[1]))
             ELSE IF file >= BoardSize \/ rank >= BoardSize THEN Panic
             ELSE GameLoop(s, i + 1, file, rank + 1,
                           [board EXCEPT ![file][rank] = game_fen_piece_to_piece(piece)])

game_piece_placement(piece_placement) == GameLoop(piece_placement, 1, 0, 0, EmptyBoard)

ChessGame_create_from_fen(fen) ==
    LET tokens == str_split(fen, " ")
    IN  IF Len(tokens) < 3 THEN Panic ELSE
    LET color == IF tokens[2] = <<"w">> THEN Ok("White")
                 ELSE IF tokens[2] = <<"b">> THEN Ok("Black")
                 ELSE Err("InvalidFen")
    IN  IF ~IsOk(color) THEN color ELSE
    LET board == game_piece_placement(tokens[1])
    IN  IF ~IsOk(board) THEN board
        ELSE Ok([board |-> board.val, turn |-> color.val])

---------------------------------------------------------------------------
(* Inputs *)

Strings(alphabet, n) == UNION {[1..k -> alphabet] : k \in 0..n}

Slashes(n) == [i \in 1..n |-> "/"]

RECURSIVE JoinSp(_)
JoinSp(tokens) ==
    IF tokens = <<>> THEN <<>>
    ELSE IF Len(tokens) = 1 THEN tokens[1]
    ELSE tokens[1] \o <<" ">> \o JoinSp(Tail(tokens))

NumSpaces(s) == Cardinality({i \in 1..Len(s) : s[i] = " "})

FenAlphabet == {" ", "w", "x"}
PlacementAlphabet == {"/", "0", "1", "8", "9", "p", "K", "x"}
CastlingAlphabet == {"K", "Q", "k", "q", "-", "x"}
EnPassantAlphabet == {"a", "e", "h", "i", "o", "E", "-", "0", "1", "3", "8", "9"}
MovesAlphabet == {"0", "5", "9", "+", "-", "a", " "}

(* the placement fields and FEN strings of the unit tests *)
TestPlacements ==
    {  <<"r","n","b","q","k","b","n","r","/","p","p","p","p","p","p","p",
         "p","/","8","/","8","/","8","/","8","/","P","P","P","P","P","P",
         "P","P","/","R","N","B","Q","K","B","N","R">>,
       <<"8","/","5","k","2","/","3","p","4","/","1","p","1","P","p","2",
         "p","/","p","P","2","P","p","1","P","/","P","4","P","1","K","/",
         "8","/","8">>,
       <<"r","1","b","k","3","r","/","p","2","p","B","p","N","p","/","n",
         "4","n","2","/","1","p","1","N","P","2","P","/","6","P","1","/",
         "3","P","4","/","P","1","P","1","K","3","/","q","5","b","1">> }

TestFens ==
    {  <<"r","n","b","q","k","b","n","r","/","p","p","p","p","p","p","p",
         "p","/","8","/","8","/","8","/","8","/","P","P","P","P","P","P",
         "P","P","/","R","N","B","Q","K","B","N","R"," ","w"," ","K","Q",
         "k","q"," ","-"," ","0"," ","1">>,
       <<"8","/","5","k","2","/","3","p","4","/","1","p","1","P","p","2",
         "p","/","p","P","2","P","p","1","P","/","P","4","P","1","K","/",
         "8","/","8"," ","b"," ","-"," ","-"," ","9","9"," ","5","0">> }

FenInputs == Strings(FenAlphabet, MaxFenLen)

(* up to MaxSlashes rank separators, then a short string; the tests' fields *)
PlacementInputs ==
    {Slashes(n) \o s : n \in 0..MaxSlashes, s \in Strings(PlacementAlphabet, MaxPlacementLen)}
        \cup TestPlacements

CastlingInputs == Strings(CastlingAlphabet, MaxCastlingLen)

(* "-", or a token of at least two characters for the coordinate converter *)
EnPassantInputs ==
    {<<"-">>} \cup {s \in Strings(EnPassantAlphabet, MaxEnPassantLen) : Len(s) >= 2}

(* short tokens, and twenty-digit tokens around usize::MAX *)
LongMoves ==
    { <<"1","8","4","4","6","7","4","4","0","7","3","7","0","9","5","5","1","6","1","5">>,
      <<"1","8","4","4","6","7","4","4","0","7","3","7","0","9","5","5","1","6","1","6">>,
      <<"0","1","8","4","4","6","7","4","4","0","7","3","7","0","9","5","5","1","6","1","5">>,
      <<"+","1","8","4","4","6","7","4","4","0","7","3","7","0","9","5","5","1","6","1","5">>,
      <<"9","9","9","9","9","9","9","9","9","9","9","9","9","9","9","9","9","9","9","9">>,
      <<"1","0","0","0","0","0","0","0","0","0","0","0","0","0","0","0","0","0","0","0","0">> }

MovesInputs == Strings(MovesAlphabet, MaxMovesLen) \cup LongMoves

PlacementTokens == { <<"r","6","K">>, <<"8","/","p","p">>, <<"x">>, <<"9","p">>, <<"0","P">> }
ColorTokens == { <<"w">>, <<"b">>, <<"a">> }
CastlingTokens == { <<"K","Q","k","q">>, <<"-">>, <<"x">> }
EnPassantTokens == { <<"-">>, <<"e","3">>, <<"o","1">> }
HalfmoveTokens == { <<"0">>, <<"9","9">>, <<"x">> }
FullmoveTokens == { <<"1">>, <<"+","5">>, <<"-","1">> }
ExtraTokens == { <<>>, << <<"x">> >> }

SixFieldFens ==
    {JoinSp(<<p, c, k, e, h, f>> \o x) :
        p \in PlacementTokens, c \in ColorTokens, k \in CastlingTokens,
        e \in EnPassantTokens, h \in HalfmoveTokens, f \in FullmoveTokens,
        x \in ExtraTokens}

CreateInputs == SixFieldFens \cup TestFens \cup {s \in FenInputs : NumSpaces(s) < 5}

---------------------------------------------------------------------------
(* The state machine: a caller invokes one decoder and gets its outcome *)

NoResult == [tag |-> "None", val |-> <<>>]

Init ==
    /\ call = "idle"
    /\ arg = <<>>
    /\ out = NoResult
    /\ writes = <<>>

Call_parse_fen ==
    /\ call = "idle"
    /\ \E fen \in FenInputs :
        /\ call' = "parse_fen"
        /\ arg' = fen
        /\ out' = parse_fen(fen)
        /\ writes' = <<>>

Call_create_from_fen ==
    /\ call = "idle"
    /\ \E fen \in CreateInputs :
        /\ call' = "create_from_fen"
        /\ arg' = fen
        /\ out' = create_from_fen(fen)
        /\ writes' = <<>>

Call_parse_piece_placement ==
    /\ call = "idle"
    /\ \E s \in PlacementInputs :
        /\ call' = "parse_piece_placement"
        /\ arg' = s
        /\ out' = parse_piece_placement(s)
        /\ writes' = placement_run(s).log

Call_parse_active_color ==
    /\ call = "idle"
    /\ \E s \in ColorTokens \cup {<<>>, <<"W">>, <<"w","b">>} :
        /\ call' = "parse_active_color"
        /\ arg' = s
        /\ out' = parse_active_color(s)
        /\ writes' = <<>>

Call_parse_castling_rights ==
    /\ call = "idle"
    /\ \E s \in CastlingInputs :
        /\ call' = "parse_castling_rights"
        /\ arg' = s
        /\ out' = parse_castling_rights(s)
        /\ writes' = <<>>

Call_parse_en_passant_square ==
    /\ call = "idle"
    /\ \E s \in EnPassantInputs :
        /\ call' = "parse_en_passant_square"
        /\ arg' = s
        /\ out' = parse_en_passant_square(s)
        /\ writes' = <<>>

Call_parse_moves ==
    /\ call = "idle"
    /\ \E s \in MovesInputs :
        /\ call' = "parse_moves"
        /\ arg' = s
        /\ out' = parse_moves(s)
        /\ writes' = <<>>

Call_ChessGame_create_from_fen ==
    /\ call = "idle"
    /\ \E fen \in CreateInputs :
        /\ call' = "ChessGame::create_from_fen"
        /\ arg' = fen
        /\ out' = ChessGame_create_from_fen(fen)
        /\ writes' = <<>>

(* the caller drops the result *)
Return ==
    /\ call # "idle"
    /\ call' = "idle"
    /\ arg' = <<>>
    /\ out' = NoResult
    /\ writes' = <<>>

Next ==
    \/ Call_parse_fen
    \/ Call_create_from_fen
    \/ Call_parse_piece_placement
    \/ Call_parse_active_color
    \/ Call_parse_castling_rights
    \/ Call_parse_en_passant_square
    \/ Call_parse_moves
    \/ Call_ChessGame_create_from_fen
    \/ Return

Spec == Init /\ [][Next]_vars

---------------------------------------------------------------------------
(* Properties *)

(* C1: an input with fewer than six space-delimited tokens (fewer than     *)
(* five spaces) makes parse_fen and create_from_fen return                 *)
(* Err(InvalidFen) as a value.                                             *)
C1_FewerThanSixTokensIsInvalidFen ==
    (call \in {"parse_fen", "create_from_fen"} /\ NumSpaces(arg) < 5)
        => IsErr(out, "InvalidFen")

(* The outcomes of the six field decoders of a six-token input, in the     *)
(* order create_from_fen is said to run them.                              *)
FieldOutcomes(fen) ==
    LET t == str_split(fen, " ")
    IN  << parse_active_color(t[2]), parse_piece_placement(t[1]),
           parse_castling_rights(t[3]), parse_en_passant_square(t[4]),
           parse_moves(t[5]), parse_moves(t[6]) >>

FirstFailing(outcomes) ==
    CHOOSE i \in 1..Len(outcomes) :
        ~IsOk(outcomes[i]) /\ \A j \in 1..(i - 1) : IsOk(outcomes[j])

(* C2: for an input with at least six tokens, create_from_fen returns a    *)
(* Position exactly when all six fields decode, and otherwise returns the  *)
(* error of the earliest failing decoder in the order active color,        *)
(* placement, castling, en-passant, half-moves, full-moves.                *)
C2_FirstFailureInFixedOrder ==
    (call = "create_from_fen" /\ NumSpaces(arg) >= 5) =>
        LET d == FieldOutcomes(arg)
        IN  IF \A i \in 1..6 : IsOk(d[i])
            THEN /\ IsOk(out)
                 /\ out.val = [board |-> d[2].val, turn |-> d[1].val,
                               white_castling |-> d[3].val[1],
                               black_castling |-> d[3].val[2],
                               en_passant |-> d[4].val,
                               halfmove |-> d[5].val, fullmove |-> d[6].val]
            ELSE /\ out.tag = "Err"
                 /\ d[FirstFailing(d)].tag = "Err"
                 /\ out.val = d[FirstFailing(d)].val

(* C2 apart from panics: when no field decoder panics, the outcome is the  *)
(* Position of the six decoded fields or the first error in that order.    *)
C2_OrderWhenNoDecoderPanics ==
    (call = "create_from_fen" /\ NumSpaces(arg) >= 5
        /\ \A i \in 1..6 : FieldOutcomes(arg)[i].tag # "Panic")
        => C2_FirstFailureInFixedOrder

ValidPlacementChars ==
    {"/", "1", "2", "3", "4", "5", "6", "7", "8",
     "p", "n", "b", "r", "q", "k", "P", "N", "B", "R", "Q", "K"}

(* C3: a placement field holding a character that is not '/', a digit 1-8  *)
(* or a piece letter is rejected with Err(InvalidFen); '0' and '9' are     *)
(* such characters.                                                        *)
C3_UnexpectedCharIsInvalidFen ==
    (call = "parse_piece_placement"
        /\ \E i \in 1..Len(arg) : arg[i] \notin ValidPlacementChars)
        => IsErr(out, "InvalidFen")

(* The last update of a castling field made of the letters K, Q, k, q      *)
(* only: the side it updates, the right it brings, and the rights the      *)
(* decoder gives for the field without its last letter.                    *)
CastlingLetters == {"K", "Q", "k", "q"}
IsCastlingStep ==
    /\ call = "parse_castling_rights"
    /\ Len(arg) >= 1
    /\ \A i \in 1..Len(arg) : arg[i] \in CastlingLetters
StepSide == IF arg[Len(arg)] \in {"K", "Q"} THEN 1 ELSE 2
StepNew == IF arg[Len(arg)] \in {"K", "k"} THEN "KingSide" ELSE "QueenSide"
StepBefore == parse_castling_rights(SubSeq(arg, 1, Len(arg) - 1)).val

(* C4: the merge is symmetric: king-side then queen-side and queen-side    *)
(* then king-side, applied to one side one directly after the other, both  *)
(* give Both; "KQ", "QK" give white Both and "kq", "qk" black Both.        *)
C4_MergeIsSymmetric ==
    /\ (IsCastlingStep /\ {StepBefore[StepSide], StepNew} = {"KingSide", "QueenSide"})
          => (IsOk(out) /\ out.val[StepSide] = "Both")
    /\ (call = "parse_castling_rights" /\ arg \in {<<"K","Q">>, <<"Q","K">>})
          => out = Ok(<<"Both", "None">>)
    /\ (call = "parse_castling_rights" /\ arg \in {<<"k","q">>, <<"q","k">>})
          => out = Ok(<<"None", "Both">>)

(* Reference decoding of a placement field: the squares of one rank group, *)
(* and the cell (g, i) of the grid.                                        *)
RefPiece(c) ==
    CASE c = "p" -> Piece("Pawn", "Black")   [] c = "P" -> Piece("Pawn", "White")
      [] c = "n" -> Piece("Knight", "Black") [] c = "N" -> Piece("Knight", "White")
      [] c = "b" -> Piece("Bishop", "Black") [] c = "B" -> Piece("Bishop", "White")
      [] c = "r" -> Piece("Rook", "Black")   [] c = "R" -> Piece("Rook", "White")
      [] c = "q" -> Piece("Queen", "Black")  [] c = "Q" -> Piece("Queen", "White")
      [] c = "k" -> Piece("King", "Black")   [] c = "K" -> Piece("King", "White")

RefRun(c) ==
    CASE c = "1" -> 1 [] c = "2" -> 2 [] c = "3" -> 3 [] c = "4" -> 4
      [] c = "5" -> 5 [] c = "6" -> 6 [] c = "7" -> 7 [] c = "8" -> 8

RECURSIVE RefSquares(_)
RefSquares(group) ==
    IF group = <<>> THEN <<>>
    ELSE (IF Head(group) \in {"1", "2", "3", "4", "5", "6", "7", "8"}
          THEN [k \in 1..RefRun(Head(group)) |-> Empty]
          ELSE <<RefPiece(Head(group))>>) \o RefSquares(Tail(group))

RefGroups(s) == str_split(s, "/")

RefCell(s, g, i) ==
    IF g + 1 <= Len(RefGroups(s)) /\ i + 1 <= Len(RefSquares(RefGroups(s)[g + 1]))
    THEN RefSquares(RefGroups(s)[g + 1])[i + 1]
    ELSE Empty

InGrid(s) ==
    /\ \A i \in 1..Len(s) : s[i] \in ValidPlacementChars
    /\ Len(RefGroups(s)) <= BoardSize
    /\ \A g \in 1..Len(RefGroups(s)) : Len(RefSquares(RefGroups(s)[g])) <= BoardSize

(* C5: for a placement field over '/', digits 1-8 and piece letters that   *)
(* stays inside the grid, the decoder returns the reference grid, writes   *)
(* no cell twice, and agrees with the older decoder of game.rs, which      *)
(* writes Empty into every skipped cell.                                   *)
C5_PlacementMatchesReference ==
    (call = "parse_piece_placement" /\ InGrid(arg)) =>
        /\ IsOk(out)
        /\ \A g \in 0..(BoardSize - 1), i \in 0..(BoardSize - 1) :
               out.val[g][i] = RefCell(arg, g, i)
        /\ \A k, l \in 1..Len(writes) : writes[k] = writes[l] => k = l
        /\ game_piece_placement(arg) = out

C5_Witness ==
    /\ call = "parse_piece_placement"
    /\ arg = <<"/", "1", "p", "K">>
    /\ InGrid(arg)
    /\ IsOk(out)
    /\ out.val[1][0] = Empty
    /\ out.val[1][1] = Piece("Pawn", "Black")
    /\ out.val[1][2] = Piece("King", "White")
    /\ writes = << <<1, 1>>, <<1, 2>> >>

RefFile(c) ==
    CASE c = "a" -> 0 [] c = "b" -> 1 [] c = "c" -> 2 [] c = "d" -> 3
      [] c = "e" -> 4 [] c = "f" -> 5 [] c = "g" -> 6 [] c = "h" -> 7

(* C6: parse_en_passant_square returns None exactly for "-"; for another   *)
(* token with a file letter 'a'..'h' and a rank digit 1..8 it returns      *)
(* Some((file index, 8 - digit)), so "e3" gives (4, 5); with another first *)
(* character, or the digit 0 or 9, it returns Err(InvalidCoordinates).     *)
C6_EnPassantSquare ==
    call = "parse_en_passant_square" =>
        /\ (out = Ok(NoneOpt)) <=> (arg = <<"-">>)
        /\ (arg # <<"-">> /\ arg[1] \in {"a", "b", "c", "d", "e", "f", "g", "h"}
              /\ arg[2] \in {"1", "2", "3", "4", "5", "6", "7", "8"})
              => out = Ok(Some(<<RefFile(arg[1]), 8 - RefRun(arg[2])>>))
        /\ (arg # <<"-">> /\ (arg[1] \notin {"a", "b", "c", "d", "e", "f", "g", "h"}
                               \/ arg[2] \in {"0", "9"}))
              => IsErr(out, "InvalidCoordinates")
        /\ (arg = <<"e", "3">>) => out = Ok(Some(<<4, 5>>))
        /\ (arg = <<"o", "1">>) => IsErr(out, "InvalidCoordinates")

C6_Witness ==
    /\ call = "parse_en_passant_square"
    /\ arg = <<"e", "3">>
    /\ out = Ok(Some(<<4, 5>>))

(* Reference reading of a numeral: its digits without leading zeros *)
IsDigitChar(c) == c \in {"0", "1", "2", "3", "4", "5", "6", "7", "8", "9"}
AllDigits(s) == s # <<>> /\ \A i \in 1..Len(s) : IsDigitChar(s[i])

RECURSIVE StripZeros(_)
StripZeros(s) == IF s # <<>> /\ Head(s) = "0" THEN StripZeros(Tail(s)) ELSE s

RefDigit(c) == IF c = "0" THEN 0 ELSE IF c = "9" THEN 9 ELSE RefRun(c)
RefNumber(s) == [i \in 1..Len(StripZeros(s)) |-> RefDigit(StripZeros(s)[i])]
FitsUsize(s) == ~NumExceeds(RefNumber(s), UsizeMax)

(* C7 as stated: parse_moves returns Ok(n) for the base-10 numeral of an   *)
(* unsigned integer n in range, and Err(InvalidNumber) for every token     *)
(* holding a character other than a decimal digit ('+' included) and for   *)
(* a value that overflows.                                                 *)
C7_OnlyDigitsAccepted ==
    call = "parse_moves" =>
        IF AllDigits(arg) /\ FitsUsize(arg)
        THEN out = Ok(RefNumber(arg))
        ELSE IsErr(out, "InvalidNumber")

(* C7 amended: one leading '+' before the digits is accepted and ignored;  *)
(* every other token with a non-digit character, the empty token, a lone   *)
(* sign and an overflowing value give Err(InvalidNumber).                  *)
Unsigned(s) == IF s # <<>> /\ Head(s) = "+" THEN Tail(s) ELSE s

C7_DigitsWithOptionalPlus ==
    call = "parse_moves" =>
        IF AllDigits(Unsigned(arg)) /\ FitsUsize(Unsigned(arg))
        THEN out = Ok(RefNumber(Unsigned(arg)))
        ELSE IsErr(out, "InvalidNumber")

C7_Witness ==
    /\ call = "parse_moves"
    /\ arg = <<"+", "5">>
    /\ out = Ok(<<5>>)

IsPrefixOf(p, s) == Len(p) <= Len(s) /\ SubSeq(s, 1, Len(p)) = p

(* C8: for an input with at least six tokens parse_fen returns six tokens, *)
(* none holding a space, that joined by single spaces are the start of the *)
(* input up to its end or to the space before the seventh token; nothing   *)
(* is trimmed, so a leading space gives an empty first token.              *)
C8_FirstSixTokens ==
    (call = "parse_fen" /\ NumSpaces(arg) >= 5) =>
        /\ IsOk(out)
        /\ Len(out.val) = 6
        /\ \A k \in 1..6 : NumSpaces(out.val[k]) = 0
        /\ IsPrefixOf(JoinSp(out.val), arg)
        /\ (Len(JoinSp(out.val)) = Len(arg) \/ arg[Len(JoinSp(out.val)) + 1] = " ")
        /\ (arg[1] = " " => out.val[1] = <<>>)

C8_Witness ==
    /\ call = "parse_fen"
    /\ arg = <<" ", "w", " ", " ", " ", " ", " ">>
    /\ out = Ok(<< <<>>, <<"w">>, <<>>, <<>>, <<>>, <<>> >>)

(* C9: every (existing, new) pair other than (KingSide, QueenSide) gives   *)
(* the new right, so a single right after Both replaces Both; the other    *)
(* side's right is unchanged; "KQK" leaves white with KingSide.            *)
C9_NewRightOverwrites ==
    /\ IsCastlingStep =>
          /\ IsOk(out)
          /\ out.val[StepSide] =
                 (IF StepBefore[StepSide] = "KingSide" /\ StepNew = "QueenSide"
                  THEN "Both" ELSE StepNew)
          /\ out.val[3 - StepSide] = StepBefore[3 - StepSide]
    /\ (IsCastlingStep /\ StepBefore[StepSide] = "Both")
          => out.val[StepSide] = StepNew
    /\ (call = "parse_castling_rights" /\ arg = <<"K", "Q", "K">>)
          => out = Ok(<<"KingSide", "None">>)
    /\ (call = "parse_castling_rights" /\ arg = <<"k", "q", "q">>)
          => out = Ok(<<"None", "QueenSide">>)

C9_Witness ==
    /\ IsCastlingStep
    /\ arg = <<"K", "Q", "k", "K">>
    /\ StepBefore = <<"Both", "KingSide">>
    /\ out = Ok(<<"KingSide", "KingSide">>)

(* C10: every write of parse_piece_placement targets a cell with both      *)
(* indices below 8, and the decoder ends with a grid or Err(InvalidFen).   *)
C10_WritesStayInGrid ==
    call = "parse_piece_placement" =>
        /\ \A k \in 1..Len(writes) : writes[k][1] < BoardSize /\ writes[k][2] < BoardSize
        /\ (IsOk(out) \/ IsErr(out, "InvalidFen"))

====
